---- MODULE Spec2Model ----
(***************************************************************************)
(* Dual-store consistency model of the pluggedin-registry service.         *)
(*                                                                         *)
(* Three backends are shared by all request handlers: the Record Store     *)
(* (MongoDB through Mongoose 8), the search index (Elasticsearch) and the  *)
(* cache (Redis).  Every request handler is an async function; each        *)
(* `await` on a backend is one atomic step of the model, and steps of      *)
(* different handlers interleave freely.                                   *)
(*                                                                         *)
(* A record carries the fields the handlers and the projection read:       *)
(* name, source, external_id, publisher_id, claimed_by, claimed_at,        *)
(* versions, description, metadata.category, metadata.tags,                *)
(* metadata.verified, metadata.trust_score and the Mongoose version key    *)
(* __v.  repository, capabilities, command, args, env and url are written  *)
(* by the same statements as description and are left out, and so are the  *)
(* timestamps metadata.last_updated and updated_at, which no handler       *)
(* reads.                                                                  *)
(***************************************************************************)
EXTENDS Integers, Sequences, FiniteSets, TLC

(***************************************************************************)
(* Bounds of the model.                                                    *)
(***************************************************************************)
MaxIds == 3          \* records that can ever be created (ObjectIds 1..MaxIds)
MaxRequests == 2     \* mutations started in one behaviour
MaxReads == 2        \* reads started in one behaviour
MaxClock == 1        \* ticks of the wall clock

\* Concurrent request handlers: Handlers serve mutations, Readers serve reads.
Handlers == {"h1", "h2"}
Readers == {"g1"}
Slots == Handlers \cup Readers

Names == {"n1", "n2"}
RepoIds == {"r1", "r2"}
\* Identities a publish/update/delete request may carry; only those in
\* Publishers resolve through Publisher.findById.
PublisherIds == {"p1", "p2"}
Publishers == {"p1"}
Users == {"u1", "u2"}
VersionStrings == {"1.0.0", "1.1.0"}

None == "none"       \* an undefined string field
NoDate == -1         \* an undefined Date field
NoNumber == -1       \* an undefined Number field
NoRec == [absent |-> TRUE]

VARIABLES
  store,     \* Record Store: id -> record or NoRec
  index,     \* search index: id -> document or NoRec
  cache,     \* cache: key -> value or NoRec
  nextId,    \* next ObjectId to hand out
  clock,     \* wall clock
  started,   \* number of mutations and of reads started so far
  pc,        \* per handler: position in its request
  req,       \* per handler: the request (operation and inputs)
  doc,       \* per handler: the Mongoose document held in memory
  resp,      \* per handler: HTTP status answered (0: none yet)
  body,      \* per handler: response body of a read
  log,       \* per handler: backend writes of the current request, in order
  lastWriter \* per id: handler whose Record Store write is the latest

vars == <<store, index, cache, nextId, clock, started, pc, req, doc, resp,
          body, log, lastWriter>>

Ids == 1..MaxIds

(***************************************************************************)
(* models/server.model.ts                                                  *)
(***************************************************************************)
\* The validator of the versions path: non-empty, exactly one is_latest.
LatestCount(versions) ==
  Cardinality({i \in 1..Len(versions) : versions[i].is_latest})

VersionsValidAlways(versions) == TRUE

VersionsValid(versions) ==
  /\ Len(versions) # 0
  /\ LatestCount(versions) = 1

\* McpServerSchema.methods.addVersion: clear every is_latest, push the new
\* version as latest.
ModelAddVersion(versions, version) ==
  Append([i \in 1..Len(versions) |-> [versions[i] EXCEPT !.is_latest = FALSE]],
         [version |-> version, is_latest |-> TRUE])

\* calculateTrustScore in hundredths; ratios are taken over the common
\* denominator ScoreDenom = lcm(1000, 10000, 500, 365).
ScoreDenom == 730000

Min(a, b) == IF a < b THEN a ELSE b

TrustNumerator(verified, stars, downloads, rating, rating_count, ageDays) ==
    (IF verified THEN 20 * ScoreDenom ELSE 0)
  + (IF stars # 0 THEN 20 * Min(stars, 1000) * (ScoreDenom \div 1000) ELSE 0)
  + (IF downloads # 0
       THEN 20 * Min(downloads, 10000) * (ScoreDenom \div 10000) ELSE 0)
  + (IF rating # 0 /\ rating_count # 0
       THEN 20 * rating * Min(rating_count, 100) * (ScoreDenom \div 500) ELSE 0)
  + 20 * Min(ageDays, 365) * (ScoreDenom \div 365)

\* Math.round(score * 100): round half up.
CalculateTrustScore(verified, stars, downloads, rating, rating_count, ageDays) ==
  (2 * TrustNumerator(verified, stars, downloads, rating, rating_count, ageDays)
     + ScoreDenom) \div (2 * ScoreDenom)

\* Days elapsed per tick of the model clock.
DaysPerTick == 200

\* An undefined number is falsy, as 0 is.
Truthy(number) == IF number = NoNumber THEN 0 ELSE number

RecordTrustScore(rec, now) ==
  CalculateTrustScore(rec.verified, Truthy(rec.github_stars),
                      Truthy(rec.download_count), Truthy(rec.rating),
                      rec.rating_count,
                      (now - rec.created_at) * DaysPerTick)

(***************************************************************************)
(* services/registry.service.ts: the document publishServer constructs     *)
(***************************************************************************)
GenerateExternalId(source, repoId) == <<source, repoId>>

PublishVersions(inputVersions) ==
  [i \in 1..Len(inputVersions) |->
     [version |-> inputVersions[i], is_latest |-> (i = Len(inputVersions))]]

NewServer(input, publisherId, now) ==
  [ name |-> input.name,
    description |-> input.description,
    source |-> "COMMUNITY",
    external_id |-> GenerateExternalId("github", input.repoId),
    versions |-> PublishVersions(input.versions),
    verified |-> FALSE,
    trust_score |-> 0,
    github_stars |-> 0,
    download_count |-> 0,
    rating |-> 0,
    rating_count |-> 0,
    category |-> IF "category" \in DOMAIN input THEN input.category ELSE "other",
    tags |-> IF "tags" \in DOMAIN input THEN input.tags ELSE << >>,
    publisher_id |-> IF publisherId \in Publishers THEN publisherId ELSE None,
    claimed_by |-> None,
    claimed_at |-> NoDate,
    created_at |-> now,
    v |-> 0 ]

(***************************************************************************)
(* services/search.service.ts: the document indexServer writes             *)
(***************************************************************************)
Project(id, rec) ==
  [ id |-> id,
    name |-> rec.name,
    description |-> rec.description,
    category |-> rec.category,
    tags |-> rec.tags,
    source |-> rec.source,
    external_id |-> rec.external_id,
    trust_score |-> rec.trust_score,
    github_stars |-> rec.github_stars,
    download_count |-> rec.download_count,
    rating |-> rec.rating,
    verified |-> rec.verified,
    claimed_by |-> rec.claimed_by,
    claimed_at |-> rec.claimed_at,
    created_at |-> rec.created_at ]

\* JSON.stringify drops the fields that are undefined.
Undefined(field, value) ==
  CASE field \in {"claimed_at"} -> value = NoDate
    [] field \in {"claimed_by", "publisher_id"} -> value = None
    [] field \in {"github_stars", "download_count", "rating"} -> value = NoNumber
    [] OTHER -> FALSE

Json(value) ==
  [f \in {x \in DOMAIN value : ~Undefined(x, value[x])} |-> value[f]]

\* The body of client.index as the backend stores it: the serialized doc.
IndexedDocument(id, rec) == Json(Project(id, rec))

\* document[field], undefined when the document lacks the field.
DocField(document, field) ==
  IF field \in DOMAIN document THEN document[field] ELSE None

(***************************************************************************)
(* Record Store (Mongoose 8 over MongoDB)                                  *)
(***************************************************************************)
\* The unique indexes: name, and (source, external_id).
NameTaken(st, name) ==
  \E i \in Ids : st[i] # NoRec /\ st[i].name = name

ExternalIdTaken(st, source, external_id) ==
  \E i \in Ids : /\ st[i] # NoRec
                 /\ st[i].source = source
                 /\ st[i].external_id = external_id

DuplicateKeyNameOnly(st, rec) == NameTaken(st, rec.name)

\* Whether the insert of a new document is rejected with E11000.
DuplicateKey(st, rec) ==
  \/ NameTaken(st, rec.name)
  \/ ExternalIdTaken(st, rec.source, rec.external_id)

(***************************************************************************)
(* Mongoose documents.  A handler holds a document read by findById, with  *)
(* the set of paths it has modified.  save() of an existing document sends *)
(* updateOne({_id}, {$set: modified paths}); when an array path is set the *)
(* filter also carries __v and the update increments it.  No document      *)
(* matched: VersionError or DocumentNotFoundError.                         *)
(***************************************************************************)
ArrayPaths == {"tags", "versions"}

NoDoc == [absent |-> TRUE]

\* The document findById returns for a stored record.
Loaded(id, rec) == [id |-> id, rec |-> rec, mod |-> {}, isNew |-> FALSE]

\* Assigning `value` to `path`: marked modified when the value changes.
SetPath(d, path, value) ==
  IF d.rec[path] = value THEN d
  ELSE [d EXCEPT !.rec = [@ EXCEPT ![path] = value], !.mod = @ \cup {path}]

VersionCheckedNever(d) == FALSE

VersionChecked(d) == d.mod \cap ArrayPaths # {}

\* Whether save() of an existing document throws.
SaveRejected(st, d) ==
  \/ st[d.id] = NoRec
  \/ VersionChecked(d) /\ st[d.id].v # d.rec.v
  \/ "versions" \in d.mod /\ ~VersionsValid(d.rec.versions)

\* The stored record after a successful save().
Saved(target, d) ==
  [p \in DOMAIN target |->
     IF p \in d.mod THEN d.rec[p]
     ELSE IF p = "v" /\ VersionChecked(d) THEN target.v + 1
     ELSE target[p]]

\* The in-memory document after a successful save().
AfterSave(d) ==
  [d EXCEPT !.rec.v = IF VersionChecked(d) THEN @ + 1 ELSE @, !.mod = {}]

(***************************************************************************)
(* Request handlers                                                        *)
(***************************************************************************)
NoReq == [op |-> "none"]

Before(k, h) == k = "h1" /\ h = "h2"

Free(h) == pc[h] \in {"idle", "done"}

\* A handler takes a new request: its locals are those of the new request.
\* A request is served by the first free handler.
Begin(h, r, first) ==
  /\ Free(h)
  /\ \A k \in Handlers : Before(k, h) => ~Free(k)
  /\ IF h \in Readers
       THEN /\ started.reads < MaxReads
            /\ started' = [started EXCEPT !.reads = @ + 1]
       ELSE /\ started.mutations < MaxRequests
            /\ started' = [started EXCEPT !.mutations = @ + 1]
  /\ pc' = [pc EXCEPT ![h] = first]
  /\ req' = [req EXCEPT ![h] = r]
  /\ doc' = [doc EXCEPT ![h] = NoDoc]
  /\ resp' = [resp EXCEPT ![h] = 0]
  /\ body' = [body EXCEPT ![h] = NoRec]
  /\ log' = [log EXCEPT ![h] = << >>]

\* The handler answers with `status` and ends; its locals die with it (the
\* operation and the target stay, for the record).
Answer(h, status) ==
  /\ pc' = [pc EXCEPT ![h] = "done"]
  /\ resp' = [resp EXCEPT ![h] = status]
  /\ req' = [req EXCEPT ![h] = [op |-> req[h].op, id |-> req[h].id]]
  /\ doc' = [doc EXCEPT ![h] = NoDoc]

Goto(h, next) ==
  /\ pc' = [pc EXCEPT ![h] = next]
  /\ UNCHANGED <<resp, req>>

\* Statuses written by errorHandler: error.statusCode || 500.
ConflictError == 409
NotFoundError == 404
UnauthorizedError == 401
InternalError == 500
\* The status an Elasticsearch ResponseError carries when the backend is down.
EsUnavailable == 503

\* The wall clock read by `new Date()`: the time elapsed since the previous
\* reading is chosen at the reading.
Now(t) == clock' = t

\* ---- publishServer ----------------------------------------------------
\* Inputs of publishServer: any name, repository and version list (the
\* service itself accepts an empty list; the routes pass at least one).
VersionLists == {<< >>, <<"1.0.0">>, <<"1.0.0", "1.1.0">>}

PublishInputs ==
  { [name |-> n, description |-> "d0", repoId |-> r, versions |-> vs] :
      n \in Names, r \in RepoIds, vs \in VersionLists }

\* Positions of a handler that has yet to construct its new document.
Constructing == {"pub_findOne", "imp_findOne", "imp_write"}

PublishBeginWith(h, inputs, publisherIds) ==
  \E input \in inputs, publisherId \in publisherIds :
    /\ nextId + Cardinality({k \in Handlers : pc[k] \in Constructing}) <= MaxIds
    /\ Begin(h, [op |-> "publish", id |-> 0, input |-> input,
                 who |-> publisherId], "pub_findOne")
    /\ UNCHANGED <<store, index, cache, nextId, clock, lastWriter>>

PublishBegin(h) == PublishBeginWith(h, PublishInputs, PublisherIds)

\* McpServer.findOne({name}); on a miss the document is constructed.
PublishFindOne(h) ==
  /\ pc[h] = "pub_findOne"
  /\ IF NameTaken(store, req[h].input.name)
       THEN /\ Answer(h, ConflictError)
            /\ UNCHANGED <<nextId, clock>>
       ELSE /\ \E t \in clock..MaxClock :
                 /\ Now(t)
                 /\ doc' = [doc EXCEPT ![h] =
                      [id |-> nextId,
                       rec |-> NewServer(req[h].input, req[h].who, t),
                       mod |-> {},
                       isNew |-> TRUE]]
            /\ req' = [req EXCEPT ![h].id = nextId]
            /\ nextId' = nextId + 1
            /\ pc' = [pc EXCEPT ![h] = "pub_save"]
            /\ UNCHANGED resp
  /\ UNCHANGED <<store, index, cache, started, body, log, lastWriter>>

\* server.save() of a new document: validation, then the insert under the
\* unique indexes.
PublishSave(h) ==
  /\ pc[h] = "pub_save"
  /\ IF ~VersionsValid(doc[h].rec.versions) \/ DuplicateKey(store, doc[h].rec)
       THEN /\ Answer(h, InternalError)
            /\ UNCHANGED <<store, log, lastWriter>>
       ELSE /\ store' = [store EXCEPT ![doc[h].id] = doc[h].rec]
            /\ lastWriter' = [lastWriter EXCEPT ![doc[h].id] = h]
            /\ log' = [log EXCEPT ![h] = Append(@, "store")]
            /\ Goto(h, "index")
            /\ UNCHANGED doc
  /\ UNCHANGED <<index, cache, nextId, clock, started, body>>

\* ---- server.save() of a document read by findById ------------------------
SaveStep(h) ==
  /\ pc[h] = "save"
  /\ IF SaveRejected(store, doc[h])
       THEN /\ Answer(h, InternalError)
            /\ UNCHANGED <<store, log, lastWriter>>
       ELSE /\ store' = [store EXCEPT ![doc[h].id] = Saved(@, doc[h])]
            /\ lastWriter' = [lastWriter EXCEPT ![doc[h].id] = h]
            /\ log' = [log EXCEPT ![h] = Append(@, "store")]
            /\ doc' = [doc EXCEPT ![h] = AfterSave(@)]
            /\ Goto(h, "index")
  /\ UNCHANGED <<index, cache, nextId, clock, started, body>>

\* ---- searchService.indexServer ------------------------------------------
SuccessStatus(op) ==
  CASE op = "publish" -> 201
    [] op = "delete" -> 204
    [] OTHER -> 200

EsErrors == {"ResponseError", "ConnectionError"}

EsErrorStatus(e) == IF e = "ResponseError" THEN EsUnavailable ELSE InternalError

IndexServerSwallow(h) ==
  /\ pc[h] = "index"
  /\ \/ /\ index' = [index EXCEPT ![doc[h].id] =
                        IndexedDocument(doc[h].id, doc[h].rec)]
        /\ log' = [log EXCEPT ![h] = Append(@, "index")]
     \/ /\ log' = [log EXCEPT ![h] = Append(@, "index_failed")]
        /\ UNCHANGED index
  /\ Answer(h, SuccessStatus(req[h].op))
  /\ UNCHANGED <<store, cache, nextId, clock, started, body, lastWriter>>

\* client.index({id, body: doc, refresh: true}) of the in-memory document;
\* a failure of the backend is rethrown to the caller.
IndexServer(h) ==
  /\ pc[h] = "index"
  /\ \/ /\ index' = [index EXCEPT ![doc[h].id] =
                        IndexedDocument(doc[h].id, doc[h].rec)]
        /\ log' = [log EXCEPT ![h] = Append(@, "index")]
        /\ Answer(h, SuccessStatus(req[h].op))
     \/ /\ \E e \in EsErrors : Answer(h, EsErrorStatus(e))
        /\ log' = [log EXCEPT ![h] = Append(@, "index_failed")]
        /\ UNCHANGED index
  /\ UNCHANGED <<store, cache, nextId, clock, started, body, lastWriter>>

\* Identifiers a request may name: every identifier handed out so far and one
\* that was never handed out (all of those behave alike: they do not resolve).
TargetIds == {i \in Ids : i <= nextId}

\* ---- ownership ------------------------------------------------------------
OwnedByAnyone(rec, publisherId) == TRUE

\* server.publisher_id?.toString() !== publisherId
OwnedBy(rec, publisherId) == rec.publisher_id = publisherId

\* ---- updateServer -------------------------------------------------------
UpdateInputs ==
  { [description |-> "d1"],
    [tags |-> <<"t1">>],
    [category |-> "tools"],
    [description |-> "d1", tags |-> <<"t1">>, category |-> "tools"] }

ApplyField(d, updates, field) ==
  IF field \in DOMAIN updates THEN SetPath(d, field, updates[field]) ELSE d

ApplyUpdatesAndName(d, updates) ==
  SetPath(ApplyField(ApplyField(ApplyField(d, updates, "description"),
                                updates, "tags"),
                     updates, "category"),
          "name", "n2")

ApplyUpdates(d, updates) ==
  ApplyField(ApplyField(ApplyField(d, updates, "description"),
                        updates, "tags"),
             updates, "category")

UpdateBeginWith(h, ids, inputs, publisherIds) ==
  \E id \in ids, updates \in inputs, publisherId \in publisherIds :
    /\ Begin(h, [op |-> "update", id |-> id, input |-> updates,
                 who |-> publisherId], "upd_find")
    /\ UNCHANGED <<store, index, cache, nextId, clock, lastWriter>>

UpdateBegin(h) == UpdateBeginWith(h, TargetIds, UpdateInputs, PublisherIds)

UpdateFind(h) ==
  /\ pc[h] = "upd_find"
  /\ LET rec == store[req[h].id] IN
       IF rec = NoRec THEN Answer(h, NotFoundError)
       ELSE IF ~OwnedBy(rec, req[h].who) THEN Answer(h, UnauthorizedError)
       ELSE /\ doc' = [doc EXCEPT ![h] =
                 ApplyUpdates(Loaded(req[h].id, rec), req[h].input)]
            /\ Goto(h, "save")
  /\ UNCHANGED <<store, index, cache, nextId, clock, started, body, log,
                 lastWriter>>

\* ---- addVersion -----------------------------------------------------------
HasVersionNever(versions, version) == FALSE

HasVersion(versions, version) ==
  \E i \in 1..Len(versions) : versions[i].version = version

AddVersionBeginWith(h, ids, versions, publisherIds) ==
  \E id \in ids, version \in versions, publisherId \in publisherIds :
    /\ Begin(h, [op |-> "addVersion", id |-> id, input |-> version,
                 who |-> publisherId], "ver_find")
    /\ UNCHANGED <<store, index, cache, nextId, clock, lastWriter>>

AddVersionBegin(h) ==
  AddVersionBeginWith(h, TargetIds, VersionStrings, PublisherIds)

AddVersionFind(h) ==
  /\ pc[h] = "ver_find"
  /\ LET rec == store[req[h].id] IN
       IF rec = NoRec THEN Answer(h, NotFoundError)
       ELSE IF ~OwnedBy(rec, req[h].who) THEN Answer(h, UnauthorizedError)
       ELSE IF HasVersion(rec.versions, req[h].input)
         THEN Answer(h, ConflictError)
       ELSE /\ doc' = [doc EXCEPT ![h] =
                 SetPath(Loaded(req[h].id, rec), "versions",
                         ModelAddVersion(rec.versions, req[h].input))]
            /\ Goto(h, "save")
  /\ UNCHANGED <<store, index, cache, nextId, clock, started, body, log,
                 lastWriter>>

\* ---- updateVerificationStatus ---------------------------------------------
VerifyBeginWith(h, ids) ==
  \E id \in ids, verified \in BOOLEAN :
    /\ Begin(h, [op |-> "verify", id |-> id, input |-> verified], "vfy_find")
    /\ UNCHANGED <<store, index, cache, nextId, clock, lastWriter>>

VerifyBegin(h) == VerifyBeginWith(h, TargetIds)

VerifyFind(h) ==
  /\ pc[h] = "vfy_find"
  /\ LET rec == store[req[h].id] IN
       IF rec = NoRec
         THEN Answer(h, NotFoundError) /\ UNCHANGED clock
         ELSE \E t \in clock..MaxClock :
                /\ Now(t)
                /\ LET d1 == SetPath(Loaded(req[h].id, rec), "verified",
                                     req[h].input)
                   IN doc' = [doc EXCEPT ![h] =
                        SetPath(d1, "trust_score", RecordTrustScore(d1.rec, t))]
                /\ Goto(h, "save")
  /\ UNCHANGED <<store, index, cache, nextId, started, body, log, lastWriter>>

\* ---- deleteServer ---------------------------------------------------------
DeleteBeginWith(h, ids, publisherIds) ==
  \E id \in ids, publisherId \in publisherIds :
    /\ Begin(h, [op |-> "delete", id |-> id, who |-> publisherId], "del_find")
    /\ UNCHANGED <<store, index, cache, nextId, clock, lastWriter>>

DeleteBegin(h) == DeleteBeginWith(h, TargetIds, PublisherIds)

DeleteFind(h) ==
  /\ pc[h] = "del_find"
  /\ LET rec == store[req[h].id] IN
       IF rec = NoRec THEN Answer(h, NotFoundError)
       ELSE IF ~OwnedBy(rec, req[h].who) THEN Answer(h, UnauthorizedError)
       ELSE /\ doc' = [doc EXCEPT ![h] = Loaded(req[h].id, rec)]
            /\ Goto(h, "del_store")
  /\ UNCHANGED <<store, index, cache, nextId, clock, started, body, log,
                 lastWriter>>

\* server.deleteOne()
DeleteOne(h) ==
  /\ pc[h] = "del_store"
  /\ store' = [store EXCEPT ![doc[h].id] = NoRec]
  /\ lastWriter' = [lastWriter EXCEPT ![doc[h].id] = h]
  /\ log' = [log EXCEPT ![h] = Append(@, "store")]
  /\ Goto(h, "del_index")
  /\ UNCHANGED <<index, cache, nextId, clock, started, doc, body>>

\* What the catch block of SearchService.deleteServer does with an error:
\* rethrown when it carries a statusCode other than 404.
DeleteRethrows(hasStatusCode, statusCode) == hasStatusCode /\ statusCode # 404

\* searchService.deleteServer(serverId)
EsDelete(h) ==
  /\ pc[h] = "del_index"
  /\ \/ /\ index[req[h].id] # NoRec
        /\ index' = [index EXCEPT ![req[h].id] = NoRec]
        /\ log' = [log EXCEPT ![h] = Append(@, "index")]
        /\ Answer(h, SuccessStatus("delete"))
     \/ /\ index[req[h].id] = NoRec          \* the backend answers 404
        /\ Answer(h, IF DeleteRethrows(TRUE, 404)
                       THEN NotFoundError ELSE SuccessStatus("delete"))
        /\ UNCHANGED <<index, log>>
     \/ /\ Answer(h, IF DeleteRethrows(TRUE, EsUnavailable)
                       THEN EsUnavailable ELSE SuccessStatus("delete"))
        /\ log' = [log EXCEPT ![h] = Append(@, "index_failed")]
        /\ UNCHANGED index
     \/ /\ Answer(h, IF DeleteRethrows(FALSE, 0)   \* ConnectionError
                       THEN InternalError ELSE SuccessStatus("delete"))
        /\ log' = [log EXCEPT ![h] = Append(@, "index_failed")]
        /\ UNCHANGED index
  /\ UNCHANGED <<store, cache, nextId, clock, started, body, lastWriter>>

\* ---- claim / unclaim (api/v1/internal/claim) -----------------------------
BadRequest == 400
Forbidden == 403

ClaimBeginWith(h, ids, users) ==
  \E id \in ids, userId \in users :
    /\ Begin(h, [op |-> "claim", id |-> id, who |-> userId], "clm_find")
    /\ UNCHANGED <<store, index, cache, nextId, clock, lastWriter>>

ClaimBegin(h) == ClaimBeginWith(h, TargetIds, Users)

AlreadyClaimedNever(rec) == FALSE

\* if (server.claimed_by) -> 409
AlreadyClaimed(rec) == rec.claimed_by # None

ClaimFind(h) ==
  /\ pc[h] = "clm_find"
  /\ LET rec == store[req[h].id] IN
       IF rec = NoRec THEN Answer(h, NotFoundError) /\ UNCHANGED clock
       ELSE IF AlreadyClaimed(rec)
         THEN Answer(h, ConflictError) /\ UNCHANGED clock
       ELSE \E t \in clock..MaxClock :
              /\ Now(t)
              /\ doc' = [doc EXCEPT ![h] =
                   SetPath(SetPath(Loaded(req[h].id, rec), "claimed_by",
                                   req[h].who),
                           "claimed_at", t)]
              /\ Goto(h, "save")
  /\ UNCHANGED <<store, index, cache, nextId, started, body, log, lastWriter>>

UnclaimBeginWith(h, ids, users) ==
  \E id \in ids, userId \in users :
    /\ Begin(h, [op |-> "unclaim", id |-> id, who |-> userId], "ucl_find")
    /\ UNCHANGED <<store, index, cache, nextId, clock, lastWriter>>

UnclaimBegin(h) == UnclaimBeginWith(h, TargetIds, Users)

UnclaimRefusalLax(rec, userId) ==
  IF rec.claimed_by = None THEN BadRequest ELSE 0

\* The status of the unclaim guard, 0 when the guard passes.
UnclaimRefusal(rec, userId) ==
  IF rec.claimed_by = None THEN BadRequest
  ELSE IF rec.claimed_by # userId THEN Forbidden
  ELSE 0

UnclaimFind(h) ==
  /\ pc[h] = "ucl_find"
  /\ LET rec == store[req[h].id] IN
       IF rec = NoRec THEN Answer(h, NotFoundError)
       ELSE IF UnclaimRefusal(rec, req[h].who) # 0
         THEN Answer(h, UnclaimRefusal(rec, req[h].who))
       ELSE /\ doc' = [doc EXCEPT ![h] =
                 SetPath(SetPath(Loaded(req[h].id, rec), "claimed_by", None),
                         "claimed_at", NoDate)]
            /\ Goto(h, "save")
  /\ UNCHANGED <<store, index, cache, nextId, clock, started, body, log,
                 lastWriter>>

(***************************************************************************)
(* History: what the answered requests tell of the past                    *)
(***************************************************************************)
Range(seq) == {seq[i] : i \in 1..Len(seq)}

\* Handler h has answered its request with success, every backend write done.
Succeeded(h) ==
  /\ pc[h] = "done"
  /\ resp[h] \in {200, 201, 204}
  /\ "index_failed" \notin Range(log[h])

MutationOps ==
  {"update", "addVersion", "claim", "unclaim", "verify", "delete"}

\* A mutation of record id has succeeded and nothing has written the record
\* since.
Settled(id) ==
  \E k \in Handlers :
    /\ Succeeded(k)
    /\ req[k].op \in MutationOps
    /\ req[k].id = id
    /\ lastWriter[id] = k

(***************************************************************************)
(* Cache (services/redis.ts) and the read path                             *)
(***************************************************************************)
\* ---- JavaScript values ---------------------------------------------------
\* A value with its type; an object is a function from its own keys.
Undef == [t |-> "undefined"]
Str(s) == [t |-> "string", s |-> s]
Num(n) == [t |-> "number", n |-> n]
Bool(b) == [t |-> "boolean", b |-> b]
Arr(a) == [t |-> "array", a |-> a]
Obj(o) == [t |-> "object", o |-> o]

RECURSIVE JoinStrings(_, _)
JoinStrings(strings, separator) ==
  IF strings = << >> THEN ""
  ELSE IF Len(strings) = 1 THEN strings[1]
  ELSE strings[1] \o separator \o JoinStrings(Tail(strings), separator)

\* `${v}` of a template literal.
Stringify(value) ==
  CASE value.t = "undefined" -> "undefined"
    [] value.t = "string" -> value.s
    [] value.t = "number" -> ToString(value.n)
    [] value.t = "boolean" -> IF value.b THEN "true" ELSE "false"
    [] value.t = "array" -> JoinStrings(value.a, ",")
    [] OTHER -> "[object Object]"

\* ---- SearchService.generateCacheKey ---------------------------------------
\* A parameter object is the sequence of its <<name, value>> entries in
\* insertion order, as Object.entries lists them.
\* The names of SearchQuery in the order of localeCompare.
ParamOrder ==
  <<"category", "filters", "limit", "offset", "query", "sort", "source",
    "tags", "verified">>

Rank(name) == CHOOSE i \in 1..Len(ParamOrder) : ParamOrder[i] = name

\* entries.sort(([a], [b]) => a.localeCompare(b))
RECURSIVE SortEntries(_)
SortEntries(entries) ==
  IF entries = << >> THEN << >>
  ELSE LET least == CHOOSE i \in 1..Len(entries) :
                      \A j \in 1..Len(entries) :
                        Rank(entries[i][1]) <= Rank(entries[j][1])
       IN <<entries[least]>>
          \o SortEntries([k \in 1..(Len(entries) - 1) |->
                            IF k < least THEN entries[k] ELSE entries[k + 1]])

KeyOf(entries) ==
  "search:" \o JoinStrings([i \in 1..Len(entries) |->
                              entries[i][1] \o ":" \o Stringify(entries[i][2])],
                           "|")

GenerateCacheKeyUnsorted(params) == KeyOf(params)

GenerateCacheKey(params) == KeyOf(SortEntries(params))

\* The parameter object the public search route builds from the validated
\* query string (offset, limit and sort carry the schema's defaults).
RouteParams(query, offset, limit) ==
  << <<"query", Str(query)>>, <<"category", Undef>>, <<"verified", Undef>>,
     <<"source", Undef>>, <<"tags", Undef>>, <<"offset", Num(offset)>>,
     <<"limit", Num(limit)>>, <<"sort", Str("relevance")>> >>

\* Search requests of the model: the text is a server name or empty, a page
\* is PageSize long (the default limit, 20, is more than the model can hold).
DefaultLimit == 20
PageSize == 1
Queries == Names \cup {""}
Offsets == {0, PageSize}
Limits == {PageSize, DefaultLimit}

\* `server:${id}` and generateCacheKey(params).
ServerCacheKey(id) == "server:" \o ToString(id)
SearchCacheKey(query, offset, limit) ==
  GenerateCacheKey(RouteParams(query, offset, limit))

CacheKeys ==
  {ServerCacheKey(i) : i \in Ids}
    \cup {SearchCacheKey(q, o, l) : q \in Queries, o \in Offsets, l \in Limits}

\* getCachedData: the parsed entry, or null on a miss and on a Redis error.
GetCachedData(key, redisUp) == IF redisUp THEN cache[key] ELSE NoRec

\* setCachedData: setEx of the serialized value; a Redis error is swallowed.
SetCachedData(key, value, redisUp) ==
  cache' = IF redisUp THEN [cache EXCEPT ![key] = value] ELSE cache

\* The TTL of an entry runs out.
Expire(key) ==
  /\ cache[key] # NoRec
  /\ cache' = [cache EXCEPT ![key] = NoRec]
  /\ UNCHANGED <<store, index, nextId, clock, started, pc, req, doc, resp,
                 body, log, lastWriter>>

\* ---- GET /api/v1/servers/:id ----------------------------------------------
\* The public view of a record.
PublicServer(id, rec) ==
  [ id |-> id,
    name |-> rec.name,
    description |-> rec.description,
    source |-> rec.source,
    external_id |-> rec.external_id,
    versions |-> rec.versions,
    verified |-> rec.verified,
    trust_score |-> rec.trust_score,
    github_stars |-> rec.github_stars,
    download_count |-> rec.download_count,
    rating |-> rec.rating,
    rating_count |-> rec.rating_count,
    category |-> rec.category,
    tags |-> rec.tags,
    is_claimed |-> (rec.claimed_by # None),
    claimed_at |-> rec.claimed_at,
    created_at |-> rec.created_at ]

\* `after` remembers whether the request arrived after a mutation of the record
\* had succeeded.
GetBeginWith(g, ids) ==
  \E id \in ids :
    /\ Begin(g, [op |-> "get", id |-> id, after |-> Settled(id)],
             "get_cache")
    /\ UNCHANGED <<store, index, cache, nextId, clock, lastWriter>>

\* getCachedData(`server:${id}`): a hit is the answer.
GetCache(g) ==
  /\ pc[g] = "get_cache"
  /\ \E redisUp \in BOOLEAN :
       LET cached == GetCachedData(ServerCacheKey(req[g].id), redisUp) IN
         IF cached # NoRec
           THEN /\ body' = [body EXCEPT ![g] = cached]
                /\ Answer(g, 200)
           ELSE /\ Goto(g, "get_find")
                /\ UNCHANGED <<body, doc>>
  /\ UNCHANGED <<store, index, cache, nextId, clock, started, log, lastWriter>>

\* registryService.getServerById(id)
GetFind(g) ==
  /\ pc[g] = "get_find"
  /\ LET rec == store[req[g].id] IN
       IF rec = NoRec THEN Answer(g, NotFoundError)
       ELSE /\ doc' = [doc EXCEPT ![g] = Loaded(req[g].id, rec)]
            /\ Goto(g, "get_set")
  /\ UNCHANGED <<store, index, cache, nextId, clock, started, body, log,
                 lastWriter>>

\* setCachedData(cacheKey, publicServer, 300); res.json(publicServer)
GetSet(g) ==
  /\ pc[g] = "get_set"
  /\ LET publicServer == Json(PublicServer(doc[g].id, doc[g].rec)) IN
       /\ \E redisUp \in BOOLEAN :
            /\ SetCachedData(ServerCacheKey(req[g].id), publicServer, redisUp)
            /\ log' = [log EXCEPT ![g] =
                         IF redisUp THEN Append(@, "cache") ELSE @]
       /\ body' = [body EXCEPT ![g] = publicServer]
  /\ Answer(g, 200)
  /\ UNCHANGED <<store, index, nextId, clock, started, lastWriter>>

GetById(g) == GetCache(g) \/ GetFind(g) \/ GetSet(g)

\* ---- GET /api/v1/search?q= --------------------------------------------------
\* One entry of the response of the search route.
SearchEntry(id, rec) ==
  [ id |-> id,
    name |-> rec.name,
    description |-> rec.description,
    verified |-> rec.verified,
    trust_score |-> rec.trust_score,
    category |-> rec.category,
    tags |-> rec.tags ]

\* getSortOrder('relevance'): _score, then trust_score descending.  The
\* documents that match an exact name, or match_all, tie on _score; documents
\* that tie on both come in the order of their identifiers.
RECURSIVE Ranked(_)
Ranked(ids) ==
  IF ids = {} THEN << >>
  ELSE LET first == CHOOSE i \in ids : \A j \in ids :
                      \/ index[i].trust_score > index[j].trust_score
                      \/ /\ index[i].trust_score = index[j].trust_score
                         /\ i <= j
       IN <<first>> \o Ranked(ids \ {first})

\* The documents the query matches: all of them when the text is empty
\* (match_all), those of that name otherwise (multi_match).
Matches(query) ==
  {i \in Ids : index[i] # NoRec /\ (query = "" \/ index[i].name = query)}

\* from: offset, size: limit of a ranked list.
Page(ranked, offset, limit) ==
  SubSeq(ranked, offset + 1, Min(offset + limit, Len(ranked)))

\* response.hits.hits
Hits(query, offset, limit) == Page(Ranked(Matches(query)), offset, limit)

RECURSIVE HydrateFromIndex(_)
HydrateFromIndex(hits) ==
  IF hits = << >> THEN << >>
  ELSE (IF index[Head(hits)] = NoRec THEN << >>
        ELSE <<SearchEntry(Head(hits), index[Head(hits)])>>)
       \o HydrateFromIndex(Tail(hits))

\* McpServer.find({_id: {$in: serverIds}}) in the order of the hits, the
\* identifiers that do not resolve filtered out.
RECURSIVE Hydrate(_)
Hydrate(hits) ==
  IF hits = << >> THEN << >>
  ELSE (IF store[Head(hits)] = NoRec THEN << >>
        ELSE <<SearchEntry(Head(hits), store[Head(hits)])>>)
       \o Hydrate(Tail(hits))

SearchPageBeginWith(g, queries, offsets, limits) ==
  \E q \in queries, o \in offsets, l \in limits :
    /\ Begin(g, [op |-> "search", id |-> 0, query |-> q, offset |-> o,
                 limit |-> l], "srch_cache")
    /\ UNCHANGED <<store, index, cache, nextId, clock, lastWriter>>

SearchBeginWith(g, queries) ==
  SearchPageBeginWith(g, queries, {0}, {DefaultLimit})

RequestCacheKey(g) == SearchCacheKey(req[g].query, req[g].offset, req[g].limit)

\* getCachedData(cacheKey).  A cached result holds plain objects: the route's
\* server.getLatestVersion() on one of them throws a TypeError.
SearchCache(g) ==
  /\ pc[g] = "srch_cache"
  /\ \E redisUp \in BOOLEAN :
       LET cached == GetCachedData(RequestCacheKey(g), redisUp) IN
         IF cached = NoRec
           THEN /\ Goto(g, "srch_es")
                /\ UNCHANGED <<body, doc>>
         ELSE IF cached.results # << >>
           THEN /\ Answer(g, InternalError)
                /\ UNCHANGED body
         ELSE /\ body' = [body EXCEPT ![g] = cached]
              /\ Answer(g, 200)
  /\ UNCHANGED <<store, index, cache, nextId, clock, started, log, lastWriter>>

\* client.search(...)
SearchEs(g) ==
  /\ pc[g] = "srch_es"
  /\ \/ /\ doc' = [doc EXCEPT ![g] =
             [hits |-> Hits(req[g].query, req[g].offset, req[g].limit),
              total |-> Cardinality(Matches(req[g].query))]]
        /\ Goto(g, "srch_find")
     \/ \E e \in EsErrors : Answer(g, EsErrorStatus(e))
  /\ UNCHANGED <<store, index, cache, nextId, clock, started, body, log,
                 lastWriter>>

\* McpServer.find(...) and the ordering of its result.
SearchFind(g) ==
  /\ pc[g] = "srch_find"
  /\ doc' = [doc EXCEPT ![g] =
       [results |-> Hydrate(doc[g].hits), total |-> doc[g].total]]
  /\ Goto(g, "srch_set")
  /\ UNCHANGED <<store, index, cache, nextId, clock, started, body, log,
                 lastWriter>>

\* setCachedData(cacheKey, result, 300); the route answers with the result.
SearchSet(g) ==
  /\ pc[g] = "srch_set"
  /\ \E redisUp \in BOOLEAN :
       /\ SetCachedData(RequestCacheKey(g), doc[g], redisUp)
       /\ log' = [log EXCEPT ![g] = IF redisUp THEN Append(@, "cache") ELSE @]
  /\ body' = [body EXCEPT ![g] = doc[g]]
  /\ Answer(g, 200)
  /\ UNCHANGED <<store, index, nextId, clock, started, lastWriter>>

Search(g) == SearchCache(g) \/ SearchEs(g) \/ SearchFind(g) \/ SearchSet(g)

(***************************************************************************)
(* Specifications                                                          *)
(***************************************************************************)
EmptyState ==
  /\ cache = [k \in CacheKeys |-> NoRec]
  /\ clock = 0
  /\ started = [mutations |-> 0, reads |-> 0]
  /\ pc = [h \in Slots |-> "idle"]
  /\ req = [h \in Slots |-> NoReq]
  /\ doc = [h \in Slots |-> NoDoc]
  /\ resp = [h \in Slots |-> 0]
  /\ body = [h \in Slots |-> NoRec]
  /\ log = [h \in Slots |-> << >>]
  /\ lastWriter = [i \in Ids |-> None]

\* The registry after construction: nothing published.
InitEmpty ==
  /\ store = [i \in Ids |-> NoRec]
  /\ index = [i \in Ids |-> NoRec]
  /\ nextId = 1
  /\ EmptyState

\* The registry with one record published by the registered publisher.
SeedRecord ==
  NewServer([name |-> "n1", description |-> "d0", repoId |-> "r1",
             versions |-> <<"1.0.0">>], "p1", 0)

Init ==
  /\ store = [i \in Ids |-> IF i = 1 THEN SeedRecord ELSE NoRec]
  /\ index = [i \in Ids |-> IF i = 1 THEN IndexedDocument(1, SeedRecord)
                                    ELSE NoRec]
  /\ nextId = 2
  /\ EmptyState

Publish(h) == PublishBegin(h) \/ PublishFindOne(h) \/ PublishSave(h)
Update(h) == UpdateBegin(h) \/ UpdateFind(h)
AddVersion(h) == AddVersionBegin(h) \/ AddVersionFind(h)
Verify(h) == VerifyBegin(h) \/ VerifyFind(h)
Delete(h) == DeleteBegin(h) \/ DeleteFind(h) \/ DeleteOne(h) \/ EsDelete(h)
Claim(h) == ClaimBegin(h) \/ ClaimFind(h)
Unclaim(h) == UnclaimBegin(h) \/ UnclaimFind(h)
Reproject(h) == SaveStep(h) \/ IndexServer(h)

\* Every mutation, on a registry holding one record.
Next ==
  \E h \in Handlers :
    \/ Publish(h)
    \/ Update(h)
    \/ AddVersion(h)
    \/ Verify(h)
    \/ Delete(h)
    \/ Claim(h)
    \/ Unclaim(h)
    \/ Reproject(h)

Spec == Init /\ [][Next]_vars

\* Publishing, on an empty registry.
PublishOnce(h) ==
  \/ PublishBeginWith(h, {in \in PublishInputs : in.versions = <<"1.0.0">>},
                      Publishers)
  \/ PublishFindOne(h)
  \/ PublishSave(h)

NextPublish == \E h \in Handlers : PublishOnce(h) \/ IndexServer(h)

SpecPublish == InitEmpty /\ [][NextPublish]_vars

\* Claiming and unclaiming, against an update and a delete of the owner.
NextClaim ==
  \E h \in Handlers :
    \/ Claim(h)
    \/ Unclaim(h)
    \/ UpdateBeginWith(h, TargetIds, {[description |-> "d1"]}, Publishers)
    \/ UpdateFind(h)
    \/ DeleteBeginWith(h, TargetIds, Publishers)
    \/ DeleteFind(h)
    \/ DeleteOne(h)
    \/ EsDelete(h)
    \/ Reproject(h)

SpecClaim == Init /\ [][NextClaim]_vars

\* The owner's mutations.
NextOwner ==
  \E h \in Handlers :
    \/ UpdateBeginWith(h, TargetIds,
                       {[description |-> "d1"], [tags |-> <<"t1">>]},
                       PublisherIds)
    \/ UpdateFind(h)
    \/ AddVersion(h)
    \/ Delete(h)
    \/ Verify(h)
    \/ Reproject(h)

SpecOwner == Init /\ [][NextOwner]_vars

\* The writers of the versions path: publish with any version list, addVersion,
\* and update.
PublishAny(h) ==
  \/ PublishBeginWith(h, {in \in PublishInputs :
                            in.name = "n2" /\ in.repoId = "r2"}, Publishers)
  \/ PublishFindOne(h)
  \/ PublishSave(h)

NextVersions ==
  \E h \in Handlers :
    \/ PublishAny(h)
    \/ AddVersionBeginWith(h, TargetIds, VersionStrings, Publishers)
    \/ AddVersionFind(h)
    \/ UpdateBeginWith(h, TargetIds,
                       {[description |-> "d1"], [tags |-> <<"t1">>]},
                       Publishers)
    \/ UpdateFind(h)
    \/ Reproject(h)

SpecVersions == Init /\ [][NextVersions]_vars

\* Every kind of mutation that re-projects, each with one input, on the
\* seeded record.
NextProjection ==
  \E h \in Handlers :
    \/ PublishAny(h)
    \/ UpdateBeginWith(h, {1}, {[description |-> "d1"]}, Publishers)
    \/ UpdateFind(h)
    \/ AddVersionBeginWith(h, {1}, {"1.1.0"}, Publishers)
    \/ AddVersionFind(h)
    \/ VerifyBeginWith(h, {1})
    \/ VerifyFind(h)
    \/ ClaimBeginWith(h, {1}, {"u1"})
    \/ ClaimFind(h)
    \/ UnclaimBeginWith(h, {1}, {"u1"})
    \/ UnclaimFind(h)
    \/ Reproject(h)

SpecProjection == Init /\ [][NextProjection]_vars

\* Reads of the seeded record, against one mutation of each kind.
NextRead ==
  \/ \E g \in Readers :
       \/ GetBeginWith(g, {1})
       \/ GetById(g)
       \/ SearchBeginWith(g, {SeedRecord.name})
       \/ Search(g)
  \/ \E h \in Handlers :
       \/ ClaimBeginWith(h, {1}, {"u1"})
       \/ ClaimFind(h)
       \/ DeleteBeginWith(h, {1}, Publishers)
       \/ DeleteFind(h)
       \/ DeleteOne(h)
       \/ EsDelete(h)
       \/ UpdateBeginWith(h, {1}, {[description |-> "d1"]}, Publishers)
       \/ UpdateFind(h)
       \/ Reproject(h)
  \/ \E key \in CacheKeys : Expire(key)

SpecRead == Init /\ [][NextRead]_vars

(***************************************************************************)
(* Claims                                                                  *)
(***************************************************************************)
\* Every request of the behaviour has been answered and is still on record.
AllAnswered ==
  /\ \A h \in Slots : Free(h)
  /\ started.mutations = Cardinality({h \in Handlers : pc[h] = "done"})

ListedFields ==
  {"claimed_by", "tags", "category", "description", "trust_score", "verified"}

IndexAgrees(id) ==
  IF store[id] = NoRec THEN index[id] = NoRec
  ELSE /\ index[id] # NoRec
       /\ \A f \in ListedFields : DocField(index[id], f) = store[id][f]

\* C1: once every mutation has completed without a backend failure, the
\* search document of each record equals the projection of the record's
\* stored state on claimed_by, tags, category, description, trust_score and
\* verified, and is absent exactly when the record is absent.
C1_IndexNeverDiverges ==
  (AllAnswered /\ \A h \in Handlers : pc[h] = "done" => Succeeded(h))
    => \A id \in Ids : IndexAgrees(id)

\* The step by which handler h leaves position p.
Leaves(h, p) == pc[h] = p /\ pc'[h] # p

Untouched == store' = store /\ index' = index /\ cache' = cache

\* C2: a claim on a record whose claimed_by is set is answered 409 and leaves
\* the record, its search document and the cache as they were.
C2_ClaimOnClaimedRejected ==
  [][\A h \in Handlers :
       (/\ Leaves(h, "clm_find")
        /\ store[req[h].id] # NoRec
        /\ store[req[h].id].claimed_by # None)
       => (pc'[h] = "done" /\ resp'[h] = 409 /\ Untouched)]_vars

C2_Witness ==
  \E h \in Handlers : pc[h] = "done" /\ req[h].op = "claim" /\ resp[h] = 409

\* C3: a publish that finds its name taken when it writes the record is
\* answered with a conflict (409), whatever the interleaving.
C3_DuplicateNameIsConflict ==
  [][\A h \in Handlers :
       (/\ Leaves(h, "pub_save")
        /\ \E i \in Ids : store[i] # NoRec /\ store[i].name = doc[h].rec.name)
       => (pc'[h] = "done" /\ resp'[h] = 409)]_vars

\* C4: every stored record has a non-empty versions list with exactly one
\* entry marked is_latest.
C4_ExactlyOneLatest ==
  \A id \in Ids :
    store[id] # NoRec =>
      /\ Len(store[id].versions) >= 1
      /\ Cardinality({i \in 1..Len(store[id].versions) :
                        store[id].versions[i].is_latest}) = 1

C4_Witness ==
  /\ \E h \in Handlers : pc[h] = "done" /\ req[h].op = "addVersion" /\ resp[h] = 200
  /\ \E id \in Ids : store[id] # NoRec /\ Len(store[id].versions) >= 2

C8_OwnerOnly ==
  [][\A h \in Handlers :
       (Leaves(h, "upd_find") \/ Leaves(h, "del_find") \/ Leaves(h, "ver_find"))
       => /\ store[req[h].id] = NoRec
               => (pc'[h] = "done" /\ resp'[h] = 404 /\ Untouched)
          /\ (store[req[h].id] # NoRec
                /\ store[req[h].id].publisher_id # req[h].who)
               => (pc'[h] = "done" /\ resp'[h] = 401 /\ Untouched)]_vars

C8_Witness ==
  \E h \in Handlers :
    /\ pc[h] = "done"
    /\ req[h].op \in {"update", "delete", "addVersion"}
    /\ resp[h] = 401
    /\ log[h] = << >>

\* C9: a publish whose insert meets a record with the same name, or with the
\* same (source, external_id), fails and writes to no backend.
C9_RejectedPublishWritesNothing ==
  [][\A h \in Handlers :
       (/\ Leaves(h, "pub_save")
        /\ \E i \in Ids :
             /\ store[i] # NoRec
             /\ \/ store[i].name = doc[h].rec.name
                \/ /\ store[i].source = doc[h].rec.source
                   /\ store[i].external_id = doc[h].rec.external_id)
       => (pc'[h] = "done" /\ resp'[h] >= 400 /\ Untouched)]_vars

C9_Witness ==
  \E h \in Handlers :
    /\ pc[h] = "done" /\ req[h].op = "publish" /\ resp[h] = 500
    /\ log[h] = << >>
    /\ store[req[h].id] = NoRec

\* C10: when the search-index write of a mutation fails after its Record Store
\* write, the mutation is answered with a failure and the Record Store keeps
\* what the mutation wrote.
C10_IndexFailureSurfaced ==
  [][\A h \in Handlers :
       (Leaves(h, "index") /\ index' = index /\ "index" \notin Range(log'[h]))
       => (/\ pc'[h] = "done"
           /\ resp'[h] >= 500
           /\ log'[h] = <<"store", "index_failed">>
           /\ store' = store)]_vars

C10_Witness ==
  \E h \in Handlers :
    /\ pc[h] = "done"
    /\ req[h].op \in {"publish", "update", "addVersion", "claim", "unclaim",
                      "verify"}
    /\ log[h] = <<"store", "index_failed">>
    /\ resp[h] >= 500
    /\ lastWriter[req[h].id] = h
    /\ store[req[h].id] # NoRec

\* C5: a get-by-id that arrives after a successful mutation of the record
\* answers with the record's state after the mutation, never with a value
\* cached before it.
C5_GetAfterMutationIsFresh ==
  [][\A g \in Readers :
       (/\ Leaves(g, "get_cache")
        /\ pc'[g] = "done"
        /\ req[g].after
        /\ Settled(req[g].id)
        /\ store[req[g].id] # NoRec)
       => body'[g] = Json(PublicServer(req[g].id, store[req[g].id]))]_vars

\* deleteServer has returned to its caller for record id.
Deleted(id) ==
  /\ store[id] = NoRec
  /\ \E k \in Handlers :
       /\ pc[k] = "done"
       /\ req[k].op = "delete"
       /\ req[k].id = id
       /\ resp[k] = 204

\* C6: once deleteServer has succeeded for a record, a get-by-id of its
\* identifier that arrives afterwards is answered 404 and a search for its
\* exact name returns no entry for it.
C6_DeletedIsGone ==
  [][\A g \in Readers :
       /\ (/\ (Leaves(g, "get_cache") \/ Leaves(g, "get_find"))
           /\ pc'[g] = "done"
           /\ req[g].after
           /\ Deleted(req[g].id))
          => resp'[g] = 404
       /\ (/\ Leaves(g, "srch_cache")
           /\ pc'[g] = "done"
           /\ req[g].query = SeedRecord.name
           /\ Deleted(1))
          => (resp'[g] = 200 =>
                \A i \in 1..Len(body'[g].results) :
                  body'[g].results[i].id # 1)]_vars

\* C11: SearchService.deleteServer treats the backend's 404 as success and
\* raises every other failure of the delete, a connection failure without a
\* status code included, to the caller of the delete mutation.
C11_DeleteFailureRaised ==
  [][\A h \in Handlers :
       Leaves(h, "del_index")
       => /\ (index[req[h].id] = NoRec /\ log'[h] = log[h]) => resp'[h] = 204
          /\ (Len(log'[h]) > Len(log[h])
                /\ log'[h][Len(log'[h])] = "index_failed") => resp'[h] >= 500]_vars

\* C12: a mutation reports success only after its Record Store write, then
\* its search-index write, then its cache invalidation, in that order.
C12_StagesInOrder ==
  \A h \in Handlers :
    (pc[h] = "done" /\ resp[h] \in {200, 201, 204})
      => log[h] = <<"store", "index", "cache">>

(***************************************************************************)
(* calculateTrustScore as a function of its inputs                         *)
(***************************************************************************)
\* The fields the method reads; an unset number is 0 (both are falsy).
ScoreInputs ==
  [verified : BOOLEAN, github_stars : {0, 500, 10000},
   download_count : {0, 5000, 20000}, rating : {0, 3, 5},
   rating_count : {0, 50, 200}, ageDays : {0, 200, 400}]

ScoreOf(in) ==
  CalculateTrustScore(in.verified, in.github_stars, in.download_count,
                      in.rating, in.rating_count, in.ageDays)

InitScore ==
  /\ store = [i \in Ids |-> NoRec]
  /\ index = [i \in Ids |-> NoRec]
  /\ nextId = 1
  /\ cache = [k \in CacheKeys |-> NoRec]
  /\ clock = 0
  /\ started = [mutations |-> 0, reads |-> 0]
  /\ pc = [h \in Slots |-> IF h \in Readers THEN "score" ELSE "idle"]
  /\ \E in \in ScoreInputs :
       req = [h \in Slots |-> IF h \in Readers
                                THEN [op |-> "score", id |-> 0, record |-> in]
                                ELSE NoReq]
  /\ doc = [h \in Slots |-> NoDoc]
  /\ resp = [h \in Slots |-> 0]
  /\ body = [h \in Slots |-> NoRec]
  /\ log = [h \in Slots |-> << >>]
  /\ lastWriter = [i \in Ids |-> None]

\* server.calculateTrustScore()
ScoreCall(g) ==
  /\ pc[g] = "score"
  /\ body' = [body EXCEPT ![g] = [first |-> ScoreOf(req[g].record)]]
  /\ pc' = [pc EXCEPT ![g] = "score_again"]
  /\ UNCHANGED <<store, index, cache, nextId, clock, started, req, doc, resp,
                 log, lastWriter>>

\* a second call on the unchanged record at the same instant
ScoreCallAgain(g) ==
  /\ pc[g] = "score_again"
  /\ body' = [body EXCEPT ![g] = [first |-> body[g].first,
                                  second |-> ScoreOf(req[g].record)]]
  /\ pc' = [pc EXCEPT ![g] = "done"]
  /\ UNCHANGED <<store, index, cache, nextId, clock, started, req, doc, resp,
                 log, lastWriter>>

NextScore == \E g \in Readers : ScoreCall(g) \/ ScoreCallAgain(g)

SpecScore == InitScore /\ [][NextScore]_vars

\* The record of the spec's example: verified, 10000 stars, rating 5 from 200
\* ratings, created 400 days ago, no other popularity field set.
ScoreSample ==
  [verified |-> TRUE, github_stars |-> 10000, download_count |-> 0,
   rating |-> 5, rating_count |-> 200, ageDays |-> 400]

\* C18: calculateTrustScore of the example record (verified, 10000 stars,
\* rating 5 with 200 ratings, 400 days old, nothing else set) is at or near
\* 1.0 within rounding to two decimals (at least 99 hundredths), and two calls
\* on the unchanged record at the same instant return the same value.
C18_SampleScoresNearOne ==
  \A g \in Readers :
    (pc[g] = "done" /\ req[g].op = "score")
      => /\ body[g].second = body[g].first
         /\ req[g].record = ScoreSample => body[g].first >= 99

(***************************************************************************)
(* scripts/importMcpServers: one server directory of the official          *)
(* repository.  The script has no response; its outcome is the line it     *)
(* logs, recorded as 200 (Created / Updated) or 500 (Failed to import).    *)
(***************************************************************************)
\* repoMetadata.stars
RepoStars == {0, 1200}

\* serverConfig
ServerConfig(name, stars) ==
  [ name |-> name,
    description |-> "d0",
    source |-> "GITHUB",
    external_id |-> <<"modelcontextprotocol/servers", name>>,
    versions |-> <<[version |-> "1.0.0", is_latest |-> TRUE]>>,
    verified |-> TRUE,
    trust_score |-> 100,
    github_stars |-> stars,
    category |-> "other",
    tags |-> <<"official">> ]

\* The paths of serverConfig.metadata the schema knows but the script leaves
\* out: rating_count takes its default, the others stay undefined.
MetadataDefaults ==
  [download_count |-> NoNumber, rating |-> NoNumber, rating_count |-> 0]

\* new McpServer(serverConfig)
ImportedServer(config, now) ==
  [ f \in DOMAIN config \cup DOMAIN MetadataDefaults
          \cup {"publisher_id", "claimed_by", "claimed_at", "created_at", "v"} |->
      CASE f \in DOMAIN config -> config[f]
        [] f \in DOMAIN MetadataDefaults -> MetadataDefaults[f]
        [] f \in {"publisher_id", "claimed_by"} -> None
        [] f = "claimed_at" -> NoDate
        [] f = "created_at" -> now
        [] OTHER -> 0 ]

\* findByIdAndUpdate(id, serverConfig): $set of every path of serverConfig,
\* metadata as a whole; no validation, no version check.
ConfigApplied(target, config) ==
  [ f \in DOMAIN target |->
      CASE f \in DOMAIN config -> config[f]
        [] f \in DOMAIN MetadataDefaults -> MetadataDefaults[f]
        [] OTHER -> target[f] ]

ImportBeginWith(h, names, stars) ==
  \E name \in names, n \in stars :
    /\ nextId + Cardinality({k \in Handlers : pc[k] \in Constructing}) <= MaxIds
    /\ Begin(h, [op |-> "import", id |-> 0, name |-> name, stars |-> n],
             "imp_findOne")
    /\ UNCHANGED <<store, index, cache, nextId, clock, lastWriter>>

ImportBegin(h) == ImportBeginWith(h, Names, RepoStars)

\* McpServer.findOne({name, source: GITHUB})
ImportFindOne(h) ==
  /\ pc[h] = "imp_findOne"
  /\ LET found == {i \in Ids : /\ store[i] # NoRec
                               /\ store[i].name = req[h].name
                               /\ store[i].source = "GITHUB"}
     IN req' = [req EXCEPT ![h].id = IF found = {} THEN 0
                                     ELSE CHOOSE i \in found : TRUE]
  /\ pc' = [pc EXCEPT ![h] = "imp_write"]
  /\ UNCHANGED <<store, index, cache, nextId, clock, started, doc, resp, body,
                 log, lastWriter>>

\* findByIdAndUpdate of the existing server, or save() of a new one; the
\* search index is not written.
ImportWrite(h) ==
  /\ pc[h] = "imp_write"
  /\ LET config == ServerConfig(req[h].name, req[h].stars) IN
       IF req[h].id # 0
         THEN /\ IF store[req[h].id] = NoRec
                   THEN UNCHANGED <<store, log, lastWriter>>
                   ELSE /\ store' = [store EXCEPT ![req[h].id] =
                                       ConfigApplied(@, config)]
                        /\ lastWriter' = [lastWriter EXCEPT ![req[h].id] = h]
                        /\ log' = [log EXCEPT ![h] = Append(@, "store")]
              /\ Answer(h, 200)
              /\ UNCHANGED <<nextId, clock>>
         ELSE \E t \in clock..MaxClock :
                /\ Now(t)
                /\ nextId' = nextId + 1
                /\ pc' = [pc EXCEPT ![h] = "done"]
                /\ doc' = [doc EXCEPT ![h] = NoDoc]
                /\ req' = [req EXCEPT ![h] = [op |-> "import", id |-> nextId]]
                /\ IF DuplicateKey(store, ImportedServer(config, t))
                     THEN /\ resp' = [resp EXCEPT ![h] = InternalError]
                          /\ UNCHANGED <<store, log, lastWriter>>
                     ELSE /\ resp' = [resp EXCEPT ![h] = 200]
                          /\ store' = [store EXCEPT ![nextId] =
                                         ImportedServer(config, t)]
                          /\ lastWriter' = [lastWriter EXCEPT ![nextId] = h]
                          /\ log' = [log EXCEPT ![h] = Append(@, "store")]
  /\ UNCHANGED <<index, cache, started, body>>

Import(h) == ImportBegin(h) \/ ImportFindOne(h) \/ ImportWrite(h)

\* The import script, with the verification change and the claim of what it
\* imported.
NextImport ==
  \E h \in Handlers :
    \/ ImportBeginWith(h, {"n1"}, RepoStars)
    \/ ImportFindOne(h)
    \/ ImportWrite(h)
    \/ PublishOnce(h)
    \/ VerifyBeginWith(h, {1})
    \/ VerifyFind(h)
    \/ ClaimBeginWith(h, {1}, {"u1"})
    \/ ClaimFind(h)
    \/ Reproject(h)

SpecImport == InitEmpty /\ [][NextImport]_vars

\* C17: every write of a record (publish, update, add-version, claim,
\* unclaim, verification change, import) leaves its stored trust_score equal
\* to calculateTrustScore of the record as written, at the time of the write,
\* and every search-index write carries that same score.
C17_ScoreIsTheFunction ==
  [][\A id \in Ids :
       /\ (store'[id] # store[id] /\ store'[id] # NoRec)
            => store'[id].trust_score = RecordTrustScore(store'[id], clock')
       /\ (index'[id] # index[id] /\ index'[id] # NoRec /\ store'[id] # NoRec)
            => index'[id].trust_score = RecordTrustScore(store'[id], clock')]_vars

\* The optional fields of a search document and their zero values.
OptionalFields ==
  {"category", "tags", "github_stars", "download_count", "rating",
   "claimed_by"}

ZeroValue(field) ==
  CASE field = "tags" -> << >>
    [] field \in {"github_stars", "download_count", "rating"} -> 0
    [] OTHER -> ""

\* Whether the record leaves the optional field unset.
Unset(field, rec) ==
  CASE field = "claimed_by" -> rec.claimed_by = None
    [] field \in {"github_stars", "download_count", "rating"} ->
         rec[field] = NoNumber
    [] OTHER -> FALSE

\* C20: the document indexServer writes carries the record's identifier and
\* every optional field (category, tags, github_stars, download_count, rating,
\* claimed_by), an unset one as its zero value and never omitted; and a write
\* path that ends in success leaves no existing record without a search
\* document.
C20_ProjectionIsTotal ==
  [][\A h \in Handlers :
       /\ (Leaves(h, "index") /\ index' # index)
            => LET document == index'[doc[h].id] IN
                 /\ DocField(document, "id") = doc[h].id
                 /\ \A f \in OptionalFields :
                      /\ f \in DOMAIN document
                      /\ Unset(f, doc[h].rec) => document[f] = ZeroValue(f)
       /\ (/\ pc[h] # "done" /\ pc'[h] = "done" /\ resp'[h] \in {200, 201}
           /\ req'[h].id \in Ids
           /\ store'[req'[h].id] # NoRec)
            => index'[req'[h].id] # NoRec]_vars

(***************************************************************************)
(* generateCacheKey as a function of the parameter object                  *)
(***************************************************************************)
MaxParams == 3       \* parameters of one object

ParamEntries ==
  {<<"query", Str("")>>, <<"query", Str("n1")>>,
   <<"offset", Num(0)>>, <<"offset", Num(PageSize)>>,
   <<"limit", Num(PageSize)>>,
   <<"tags", Undef>>, <<"tags", Arr(<<"t1", "t2">>)>>,
   <<"filters", Obj([unclaimed |-> Bool(TRUE)])>>}

\* Objects of up to MaxParams parameters: no name occurs twice in an object.
ParamObjects ==
  {o \in UNION {[1..n -> ParamEntries] : n \in 1..MaxParams} :
     \A i, j \in 1..Len(o) : o[i][1] = o[j][1] => i = j}

InitKey ==
  /\ store = [i \in Ids |-> NoRec]
  /\ index = [i \in Ids |-> NoRec]
  /\ nextId = 1
  /\ cache = [k \in CacheKeys |-> NoRec]
  /\ clock = 0
  /\ started = [mutations |-> 0, reads |-> 0]
  /\ pc = [h \in Slots |-> IF h \in Readers THEN "key" ELSE "idle"]
  /\ \E params \in ParamObjects :
       req = [h \in Slots |-> IF h \in Readers
                                THEN [op |-> "key", id |-> 0, params |-> params,
                                      other |-> params]
                                ELSE NoReq]
  /\ doc = [h \in Slots |-> NoDoc]
  /\ resp = [h \in Slots |-> 0]
  /\ body = [h \in Slots |-> NoRec]
  /\ log = [h \in Slots |-> << >>]
  /\ lastWriter = [i \in Ids |-> None]

\* this.generateCacheKey(params)
KeyCall(g) ==
  /\ pc[g] = "key"
  /\ body' = [body EXCEPT ![g] = [key |-> GenerateCacheKey(req[g].params)]]
  /\ pc' = [pc EXCEPT ![g] = "key_other"]
  /\ UNCHANGED <<store, index, cache, nextId, clock, started, req, doc, resp,
                 log, lastWriter>>

\* this.generateCacheKey(other), for another object of the same parameter
\* names
KeyCallOther(g) ==
  /\ pc[g] = "key_other"
  /\ \E other \in ParamObjects :
       /\ {e[1] : e \in Range(other)} = {e[1] : e \in Range(req[g].params)}
       /\ req' = [req EXCEPT ![g].other = other]
       /\ body' = [body EXCEPT ![g] = [key |-> body[g].key,
                                       other |-> GenerateCacheKey(other)]]
  /\ pc' = [pc EXCEPT ![g] = "done"]
  /\ UNCHANGED <<store, index, cache, nextId, clock, started, doc, resp, log,
                 lastWriter>>

NextKey == \E g \in Readers : KeyCall(g) \/ KeyCallOther(g)

SpecKey == InitKey /\ [][NextKey]_vars

\* C14: two parameter objects that hold the same names with the same values
\* get the same cache key, whatever the insertion order of either.
C14_KeyIgnoresInsertionOrder ==
  \A g \in Readers :
    (/\ pc[g] = "done" /\ req[g].op = "key"
     /\ Range(req[g].other) = Range(req[g].params))
      => body[g].other = body[g].key

C14_Witness ==
  \E g \in Readers :
    /\ pc[g] = "done" /\ req[g].op = "key"
    /\ Range(req[g].other) = Range(req[g].params)
    /\ Len(req[g].params) = MaxParams
    /\ req[g].other # req[g].params
    /\ req[g].other[1] = req[g].params[MaxParams]
    /\ body[g].other = body[g].key

(***************************************************************************)
(* buildElasticsearchQuery and the filter merge of search                  *)
(***************************************************************************)
\* object[key]: undefined when the object has no such key.
Get(object, key) == IF key \in DOMAIN object THEN object[key] ELSE Undef

\* if (value)
IsTruthy(value) ==
  CASE value.t = "undefined" -> FALSE
    [] value.t = "string" -> value.s # ""
    [] value.t = "number" -> value.n # 0
    [] value.t = "boolean" -> value.b
    [] OTHER -> TRUE

TopLevelFilters == {"category", "verified", "source", "tags"}

\* {category, verified, source, tags, ...filters}
MergeFilters(top, filters) ==
  [k \in TopLevelFilters \cup DOMAIN filters |->
     IF k \in DOMAIN filters THEN filters[k] ELSE top[k]]

MultiMatch(text) == [clause |-> "multi_match", value |-> text]
Term(field, value) == [clause |-> "term", field |-> field, value |-> value]
Terms(field, value) == [clause |-> "terms", field |-> field, value |-> value]
MustNotExist(field) == [clause |-> "must_not_exists", field |-> field]

If(condition, clause) == IF condition THEN <<clause>> ELSE << >>

BuildElasticsearchQuery(query, filters) ==
  LET category == Get(filters, "category")
      verified == Get(filters, "verified")
      source == Get(filters, "source")
      tags == Get(filters, "tags")
      unclaimed == Get(filters, "unclaimed")
      claimed_by == Get(filters, "claimed_by")
      must == If(IsTruthy(query), MultiMatch(query))
      filter ==
           If(IsTruthy(category), Term("category", category))
        \o If(verified.t # "undefined", Term("verified", verified))
        \o If(IsTruthy(source), Term("source", source))
        \o If(IsTruthy(tags) /\ tags.t = "array" /\ Len(tags.a) > 0,
              Terms("tags", tags))
        \o If(unclaimed.t = "boolean" /\ unclaimed.b,
              MustNotExist("claimed_by"))
        \o If(IsTruthy(claimed_by), Term("claimed_by", claimed_by))
  IN IF must = << >> /\ filter = << >> THEN [match_all |-> TRUE]
     ELSE IF filter = << >> THEN [must |-> must]
     ELSE IF must = << >> THEN [filter |-> filter]
     ELSE [must |-> must, filter |-> filter]

\* The requests of search: a text, the four top-level filters, the nested
\* filters object.
NestedValues(key) ==
  CASE key = "source" -> {Undef, Str("COMMUNITY")}
    [] key = "unclaimed" -> {Bool(TRUE), Bool(FALSE)}
    [] OTHER -> {Undef, Str("u1")}

NestedFilters ==
  {f \in UNION {[D -> UNION {NestedValues(k) : k \in D}] :
                  D \in SUBSET {"source", "unclaimed", "claimed_by"}} :
     \A k \in DOMAIN f : f[k] \in NestedValues(k)}

QueryRequests ==
  [text : {Str(""), Str("n1")},
   category : {Undef, Str("tools")},
   verified : {Undef, Bool(FALSE), Bool(TRUE)},
   source : {Undef, Str("GITHUB")},
   tags : {Undef, Arr(<< >>), Arr(<<"t1">>)},
   filters : NestedFilters]

InitQuery ==
  /\ store = [i \in Ids |-> NoRec]
  /\ index = [i \in Ids |-> NoRec]
  /\ nextId = 1
  /\ cache = [k \in CacheKeys |-> NoRec]
  /\ clock = 0
  /\ started = [mutations |-> 0, reads |-> 0]
  /\ pc = [h \in Slots |-> IF h \in Readers THEN "merge" ELSE "idle"]
  /\ \E params \in QueryRequests :
       req = [h \in Slots |-> IF h \in Readers
                                THEN [op |-> "query", id |-> 0,
                                      params |-> params]
                                ELSE NoReq]
  /\ doc = [h \in Slots |-> NoDoc]
  /\ resp = [h \in Slots |-> 0]
  /\ body = [h \in Slots |-> NoRec]
  /\ log = [h \in Slots |-> << >>]
  /\ lastWriter = [i \in Ids |-> None]

\* The argument search passes: {category, verified, source, tags, ...filters}
QueryMerge(g) ==
  /\ pc[g] = "merge"
  /\ doc' = [doc EXCEPT ![g] =
       [filters |-> MergeFilters(req[g].params, req[g].params.filters)]]
  /\ pc' = [pc EXCEPT ![g] = "build"]
  /\ UNCHANGED <<store, index, cache, nextId, clock, started, req, resp, body,
                 log, lastWriter>>

\* this.buildElasticsearchQuery(query, merged)
QueryBuild(g) ==
  /\ pc[g] = "build"
  /\ body' = [body EXCEPT ![g] =
       [esQuery |-> BuildElasticsearchQuery(req[g].params.text, doc[g].filters)]]
  /\ pc' = [pc EXCEPT ![g] = "done"]
  /\ UNCHANGED <<store, index, cache, nextId, clock, started, req, doc, resp,
                 log, lastWriter>>

NextQuery == \E g \in Readers : QueryMerge(g) \/ QueryBuild(g)

SpecQuery == InitQuery /\ [][NextQuery]_vars

\* Whether a value names something to filter on: a non-empty string or
\* array, a boolean (for unclaimed: true).
Given(field, value) ==
  CASE value.t = "undefined" -> FALSE
    [] field = "unclaimed" -> value.t = "boolean" /\ value.b
    [] value.t = "boolean" -> TRUE
    [] value.t = "string" -> value.s # ""
    [] value.t = "array" -> value.a # << >>
    [] OTHER -> FALSE

\* The value a request gives for a filter: that of the nested object when
\* the nested object gives one, the top-level value otherwise.
Requested(params, field) ==
  IF Given(field, Get(params.filters, field)) THEN params.filters[field]
  ELSE IF field \in TopLevelFilters THEN params[field]
  ELSE Undef

FilterFields == TopLevelFilters \cup {"unclaimed", "claimed_by"}

ClausesOn(esQuery, field) ==
  IF "filter" \in DOMAIN esQuery
    THEN {i \in 1..Len(esQuery.filter) :
            IF field = "unclaimed"
              THEN esQuery.filter[i] = MustNotExist("claimed_by")
              ELSE /\ esQuery.filter[i].clause \in {"term", "terms"}
                   /\ esQuery.filter[i].field = field}
    ELSE {}

SeedRecords ==
  [i \in 1..3 |->
     NewServer([name |-> <<"n1", "n2", "n3">>[i], description |-> "d0",
                repoId |-> <<"r1", "r2", "r3">>[i], versions |-> <<"1.0.0">>],
               "p1", 0)]

\* Three records published by the registered publisher, each indexed.
InitThree ==
  /\ store = [i \in Ids |-> IF i \in DOMAIN SeedRecords
                              THEN SeedRecords[i] ELSE NoRec]
  /\ index = [i \in Ids |-> IF i \in DOMAIN SeedRecords
                              THEN IndexedDocument(i, SeedRecords[i]) ELSE NoRec]
  /\ nextId = Len(SeedRecords) + 1
  /\ EmptyState

\* The search for everything, against the owner's update of one record and
\* delete of another.
NextHydrate ==
  \/ \E g \in Readers :
       \/ SearchBeginWith(g, {""})
       \/ Search(g)
  \/ \E h \in Handlers :
       \/ UpdateBeginWith(h, {2}, {[description |-> "d1"]}, Publishers)
       \/ UpdateFind(h)
       \/ DeleteBeginWith(h, {1}, Publishers)
       \/ DeleteFind(h)
       \/ DeleteOne(h)
       \/ EsDelete(h)
       \/ Reproject(h)

SpecHydrate == InitThree /\ [][NextHydrate]_vars

\* C13: on a cache miss the result list is the list of backend hits with the
\* identifiers that do not resolve in the Record Store removed, in the order
\* of the hits, and each entry carries the Record Store's fields as they are
\* when the records are read.
C13_ResultsAreStoreRecordsInHitOrder ==
  [][\A g \in Readers :
       Leaves(g, "srch_find")
       => LET hits == doc[g].hits
              kept == SelectSeq(hits, LAMBDA i : store[i] # NoRec)
              results == doc'[g].results
          IN /\ Len(results) = Len(kept)
             /\ \A k \in 1..Len(results) :
                  /\ results[k].id = kept[k]
                  /\ \A f \in DOMAIN results[k] \ {"id"} :
                       results[k][f] = store[kept[k]][f]]_vars

\* A search that met an identifier that did not resolve and a record whose
\* search document was behind the Record Store.
C13_Witness ==
  \E g \in Readers :
    /\ pc[g] = "srch_set"
    /\ doc[g].total = 3
    /\ Len(doc[g].results) = 2
    /\ doc[g].results[1].id = 2 /\ doc[g].results[2].id = 3
    /\ doc[g].results[1].description = "d1"
    /\ index[2].description = "d0"
    /\ store[1] = NoRec /\ index[1] # NoRec

(***************************************************************************)
(* Searches with no mutation under way                                     *)
(***************************************************************************)
\* The three records after deleteServer of record 1 answered 204 although its
\* backend delete failed with a ConnectionError (the last branch of EsDelete):
\* the record is gone from the Record Store, its search document remains.
InitOrphan ==
  /\ store = [i \in Ids |-> IF i \in DOMAIN SeedRecords /\ i # 1
                              THEN SeedRecords[i] ELSE NoRec]
  /\ index = [i \in Ids |-> IF i \in DOMAIN SeedRecords
                              THEN IndexedDocument(i, SeedRecords[i]) ELSE NoRec]
  /\ nextId = Len(SeedRecords) + 1
  /\ EmptyState

NextPaging ==
  \/ \E g \in Readers :
       \/ SearchPageBeginWith(g, Queries, Offsets, {PageSize})
       \/ Search(g)
  \/ \E key \in CacheKeys : Expire(key)

SpecPaging == InitOrphan /\ [][NextPaging]_vars

\* What the backend query and the hydration yield for a request, in the
\* current state.
MissResult(r) ==
  [results |-> Hydrate(Hits(r.query, r.offset, r.limit)),
   total |-> Cardinality(Matches(r.query))]

\* C15: with no mutation in the behaviour, a search answers 200 with the
\* result of the backend query plus hydration whether the cache is
\* unreachable on the get, on the set or on both, whether it misses, and
\* whether it hits.
C15_CacheNeverChangesTheResult ==
  [][\A g \in Readers :
       (/\ started.mutations = 0
        /\ pc[g] \in {"srch_cache", "srch_es", "srch_set"} /\ pc'[g] = "done"
        /\ resp'[g] \notin {EsErrorStatus(e) : e \in EsErrors}
             \/ pc[g] # "srch_es")
       => /\ resp'[g] = 200
          /\ body'[g] = MissResult(req[g])]_vars

\* The records of the one full ordered result set of a query.
FullResult(query) == Hydrate(Ranked(Matches(query)))

\* C16: with no mutation in the behaviour, the page at offset 0 and the page
\* at offset PageSize of one query, both of PageSize entries, share no record
\* and together are the first 2 * PageSize entries of the full ordered result
\* set.  The first page is read where the first search left it: in the cache.
C16_PagesPartitionTheResult ==
  [][\A g \in Readers :
       (/\ started.mutations = 0
        /\ Leaves(g, "srch_set")
        /\ req[g].offset = PageSize /\ req[g].limit = PageSize
        /\ cache[SearchCacheKey(req[g].query, 0, PageSize)] # NoRec)
       => LET first == cache[SearchCacheKey(req[g].query, 0, PageSize)].results
              second == body'[g].results
              full == FullResult(req[g].query)
          IN /\ \A i \in 1..Len(first), j \in 1..Len(second) :
                  first[i].id # second[j].id
             /\ first \o second
                  = SubSeq(full, 1, Min(2 * PageSize, Len(full)))]_vars

\* C21: addVersion with a version string the record already holds is answered
\* with the conflict status and changes neither the Record Store (versions
\* list, is_latest flags) nor the search index; addVersion with a new string
\* stores the old entries, none of them latest, followed by the new entry as
\* the only latest one.
C21_DuplicateVersionRejected ==
  [][\A h \in Handlers :
       /\ (/\ Leaves(h, "ver_find")
           /\ store[req[h].id] # NoRec
           /\ store[req[h].id].publisher_id = req[h].who
           /\ \E i \in 1..Len(store[req[h].id].versions) :
                store[req[h].id].versions[i].version = req[h].input)
            => (pc'[h] = "done" /\ resp'[h] = ConflictError /\ Untouched)
       /\ (/\ Leaves(h, "save") /\ req[h].op = "addVersion"
           /\ store' # store)
            => LET old == store[req[h].id].versions
                   new == store'[req[h].id].versions
               IN /\ Len(new) = Len(old) + 1
                  /\ new[Len(new)] = [version |-> req[h].input,
                                      is_latest |-> TRUE]
                  /\ \A i \in 1..Len(old) :
                       /\ new[i].version = old[i].version
                       /\ ~new[i].is_latest]_vars

C21_Witness ==
  \E h, k \in Handlers :
    /\ pc[h] = "done" /\ req[h].op = "addVersion" /\ resp[h] = ConflictError
    /\ log[h] = << >>
    /\ pc[k] = "done" /\ req[k].op = "addVersion" /\ resp[k] = 200
    /\ req[k].id = req[h].id
    /\ Len(store[req[h].id].versions) = 2
    /\ LatestCount(store[req[h].id].versions) = 1

\* The fields of a record that identify it.
IdentityFields == {"name", "source", "external_id"}

\* C22: no step of an update, add-version, claim, unclaim or verification
\* change alters the name, source or external_id of a record that stays in
\* the Record Store, and the save of an update alters no field that is
\* absent from the update input (the document version counter apart).
C22_IdentityIsImmutable ==
  [][/\ \A id \in Ids :
          (store[id] # NoRec /\ store'[id] # NoRec)
            => \A f \in IdentityFields : store'[id][f] = store[id][f]
     /\ \A h \in Handlers :
          (Leaves(h, "save") /\ req[h].op = "update" /\ store' # store)
            => \A f \in DOMAIN store[req[h].id] \ (DOMAIN req[h].input \cup {"v"}) :
                 store'[req[h].id][f] = store[req[h].id][f]]_vars

\* The seeded record after an update and a claim: changed, under its name.
C22_Witness ==
  /\ \A h \in Handlers : pc[h] = "done" /\ resp[h] = 200
  /\ {req[h].op : h \in Handlers} = {"update", "claim"}
  /\ store[1].description = "d1"
  /\ store[1].claimed_by = "u1"
  /\ \A f \in IdentityFields : store[1][f] = SeedRecord[f]

\* C23: a publish that repeats a publish whose Record Store write succeeded
\* and whose search-index write failed (the stored record is the one this
\* request constructs, it has no search document and no request is about to
\* write one) is not answered before the record is in the search index.
C23_PublishRetryRecovers ==
  [][\A h \in Handlers :
       \A id \in Ids :
         (/\ Leaves(h, "pub_findOne")
          /\ store[id] # NoRec
          /\ store[id] = NewServer(req[h].input, req[h].who, store[id].created_at)
          /\ index[id] = NoRec
          /\ \A k \in Handlers : ~(pc[k] = "index" /\ req[k].id = id))
           => (pc'[h] = "done" => index'[id] # NoRec)]_vars

(***************************************************************************)
(* SearchService.reindexAll (services/search.service.ts)                   *)
(***************************************************************************)
EmptiedNot(ix) == ix

\* The index after indices.delete and indices.create: no document.
Emptied(ix) == [i \in Ids |-> NoRec]

\* McpServer.find({}): the stored records, in identifier order.
FindAll(s) ==
  LET ids == SelectSeq([i \in 1..MaxIds |-> i], LAMBDA i : s[i] # NoRec)
  IN [n \in 1..Len(ids) |-> [id |-> ids[n], rec |-> s[ids[n]]]]

ReindexBegin(h) ==
  /\ Begin(h, [op |-> "reindex", id |-> 0], "rx_delete")
  /\ UNCHANGED <<store, index, cache, nextId, clock, lastWriter>>

\* indices.delete(...).catch(() => {}): a failure is swallowed.
ReindexDelete(h) ==
  /\ pc[h] = "rx_delete"
  /\ \/ /\ index' = Emptied(index)
        /\ doc' = [doc EXCEPT ![h] = [deleted |-> TRUE, servers |-> << >>]]
     \/ /\ doc' = [doc EXCEPT ![h] = [deleted |-> FALSE, servers |-> << >>]]
        /\ UNCHANGED index
  /\ Goto(h, "rx_create")
  /\ UNCHANGED <<store, cache, nextId, clock, started, body, log, lastWriter>>

\* indices.create: fails when the index is still there, or on a backend
\* failure; the error is rethrown.
ReindexCreate(h) ==
  /\ pc[h] = "rx_create"
  /\ \/ /\ doc[h].deleted
        /\ Goto(h, "rx_find")
        /\ UNCHANGED <<doc, log>>
     \/ /\ \E e \in EsErrors : Answer(h, EsErrorStatus(e))
        /\ log' = [log EXCEPT ![h] = Append(@, "index_failed")]
  /\ UNCHANGED <<store, index, cache, nextId, clock, started, body, lastWriter>>

ReindexFind(h) ==
  /\ pc[h] = "rx_find"
  /\ doc' = [doc EXCEPT ![h].servers = FindAll(store)]
  /\ Goto(h, "rx_index")
  /\ UNCHANGED <<store, index, cache, nextId, clock, started, body, log,
                 lastWriter>>

\* for (const server of servers) await this.indexServer(server)
ReindexIndex(h) ==
  /\ pc[h] = "rx_index"
  /\ IF doc[h].servers = << >>
       THEN /\ Answer(h, 200)
            /\ UNCHANGED <<index, log>>
       ELSE LET server == Head(doc[h].servers) IN
            \/ /\ index' = [index EXCEPT ![server.id] =
                              IndexedDocument(server.id, server.rec)]
               /\ doc' = [doc EXCEPT ![h].servers = Tail(@)]
               /\ log' = [log EXCEPT ![h] = Append(@, "index")]
               /\ UNCHANGED <<pc, req, resp>>
            \/ /\ \E e \in EsErrors : Answer(h, EsErrorStatus(e))
               /\ log' = [log EXCEPT ![h] = Append(@, "index_failed")]
               /\ UNCHANGED index
  /\ UNCHANGED <<store, cache, nextId, clock, started, body, lastWriter>>

Reindex(h) ==
  \/ ReindexDelete(h)
  \/ ReindexCreate(h)
  \/ ReindexFind(h)
  \/ ReindexIndex(h)

\* Any registry of up to three records some of which were updated, under an
\* index that holds stale documents, lacks documents and holds documents of
\* records that are gone.
InitReindex ==
  /\ store \in [Ids -> {NoRec} \cup
                  {[SeedRecords[i] EXCEPT !.description = "d1"] :
                     i \in DOMAIN SeedRecords}]
  /\ \A i \in Ids :
       store[i] # NoRec => i \in DOMAIN SeedRecords /\ store[i].name = SeedRecords[i].name
  /\ index \in [Ids -> {NoRec} \cup
                  {IndexedDocument(i, SeedRecords[i]) : i \in DOMAIN SeedRecords}]
  /\ \A i \in Ids :
       index[i] # NoRec => i \in DOMAIN SeedRecords /\ index[i] = IndexedDocument(i, SeedRecords[i])
  /\ nextId = Len(SeedRecords) + 1
  /\ EmptyState

\* reindexAll, one run after the other, nothing else running.
ReindexAlone(h) ==
  /\ \A k \in Handlers : Free(k)
  /\ ReindexBegin(h)

NextReindex == \E h \in Handlers : ReindexAlone(h) \/ Reindex(h)

SpecReindex == InitReindex /\ [][NextReindex]_vars

\* One document per stored record, its projection, and no other document.
IndexExact ==
  \A i \in Ids :
    index[i] = IF store[i] = NoRec THEN NoRec ELSE IndexedDocument(i, store[i])

\* C24: when a reindexAll that ran alone has completed, the search index
\* holds exactly the projection of every stored record and nothing else,
\* after the first run and after a second one alike, whatever it held before.
C24_ReindexIsExact ==
  \A h \in Handlers :
    (pc[h] = "done" /\ req[h].op = "reindex" /\ resp[h] = 200) => IndexExact

\* A second run has completed over a registry of three records of which one
\* is gone.
C24_Witness ==
  \E h \in Handlers :
    /\ pc[h] = "done" /\ req[h].op = "reindex" /\ resp[h] = 200
    /\ started.mutations = 2
    /\ Len(log[h]) = 2
    /\ store[1] = NoRec
    /\ IndexExact

(***************************************************************************)
(* SearchService.getSuggestions and GET /search/suggestions                *)
(***************************************************************************)
\* The completion suggester on the name, skip_duplicates: the names in the
\* index that start with the prefix.  The route requires two characters,
\* and the names have two.
Suggestions(prefix) ==
  {index[i].name : i \in {j \in Ids : index[j] # NoRec /\ index[j].name = prefix}}

SuggestBeginWith(g, prefixes) ==
  \E q \in prefixes :
    /\ Begin(g, [op |-> "suggest", id |-> 0, query |-> q], "sug_es")
    /\ UNCHANGED <<store, index, cache, nextId, clock, lastWriter>>

\* client.search({suggest}); the catch block logs the error and returns [],
\* which the route sends as its answer.
SuggestEs(g) ==
  /\ pc[g] = "sug_es"
  /\ \/ /\ body' = [body EXCEPT ![g] = [suggestions |-> Suggestions(req[g].query)]]
        /\ UNCHANGED log
     \/ /\ body' = [body EXCEPT ![g] = [suggestions |-> {}]]
        /\ log' = [log EXCEPT ![g] = Append(@, "es_failed")]
  /\ Answer(g, 200)
  /\ UNCHANGED <<store, index, cache, nextId, clock, started, lastWriter>>

\* Searches and suggestions against the owner's update of the record.
NextBackend ==
  \/ \E g \in Readers :
       \/ SearchBeginWith(g, Queries)
       \/ Search(g)
       \/ SuggestBeginWith(g, Names)
       \/ SuggestEs(g)
  \/ \E h \in Handlers :
       \/ UpdateBeginWith(h, {1}, {[description |-> "d1"]}, Publishers)
       \/ UpdateFind(h)
       \/ Reproject(h)

SpecBackend == Init /\ [][NextBackend]_vars

ErrorStatuses == {InternalError, EsUnavailable}

\* C25: a read whose call of the search backend failed is answered with the
\* failure, by search and by getSuggestions alike, and the failed search
\* leaves the cache as it was.
C25_BackendFailureIsFatal ==
  [][\A g \in Readers :
       /\ (Leaves(g, "srch_es") /\ pc'[g] = "done")
            => (resp'[g] \in ErrorStatuses /\ cache' = cache)
       /\ (Leaves(g, "sug_es") /\ log'[g] # log[g])
            => resp'[g] \in ErrorStatuses]_vars

(***************************************************************************)
(* Expiry of cache entries (services/redis.ts setCachedData)               *)
(***************************************************************************)
DefaultTtl == 3600
SearchTtl == 300

TtlNone(ttlSeconds) == 0

\* const ttl = ttlSeconds || parseInt(process.env.REDIS_TTL_SECONDS || '3600')
Ttl(ttlSeconds) == IF ttlSeconds # 0 THEN ttlSeconds ELSE DefaultTtl

\* setEx(key, ttl, ...): the entry is dropped once a positive ttl has run out.
ExpireByTtl(key) ==
  /\ Ttl(SearchTtl) > 0
  /\ Expire(key)

\* Searches for the seeded record and for everything, against the owner's
\* update of its description, the entries running out.
NextStale ==
  \/ \E g \in Readers :
       \/ SearchBeginWith(g, {SeedRecord.name, ""})
       \/ Search(g)
  \/ \E h \in Handlers :
       \/ UpdateBeginWith(h, {1}, {[description |-> "d1"]}, Publishers)
       \/ UpdateFind(h)
       \/ Reproject(h)
  \/ \E key \in CacheKeys : ExpireByTtl(key)

SpecStale ==
  /\ Init
  /\ [][NextStale]_vars
  /\ \A key \in CacheKeys : WF_vars(ExpireByTtl(key))

NextTwoClaims ==
  \E h \in Handlers :
    \/ ClaimBeginWith(h, {1}, Users)
    \/ ClaimFind(h)
    \/ Reproject(h)

SpecTwoClaims == Init /\ [][NextTwoClaims]_vars

\* C27: of two claims of the unclaimed record by different users at most one
\* is answered with success, and once both are answered the record is
\* claimed, in the Record Store and in the search document, by the user of
\* the claim that succeeded.
C27_OneClaimWins ==
  \A h, k \in Handlers :
    (/\ h # k
     /\ pc[h] = "done" /\ req[h].op = "claim"
     /\ pc[k] = "done" /\ req[k].op = "claim"
     /\ req[h].id = req[k].id
     /\ Succeeded(h))
      => /\ ~Succeeded(k)
         /\ store[req[h].id].claimed_by = index[req[h].id].claimed_by

(***************************************************************************)
(* Cache keys of the claim routes (GET /unclaimed, GET /my-servers)        *)
(***************************************************************************)
\* searchService.search({query: '', limit, offset, sort: 'updated',
\*                       filters: {source, unclaimed: true}})
UnclaimedParams(source, offset, limit) ==
  << <<"query", Str("")>>, <<"limit", Num(limit)>>, <<"offset", Num(offset)>>,
     <<"sort", Str("updated")>>,
     <<"filters", Obj([source |-> source, unclaimed |-> Bool(TRUE)])>> >>

\* searchService.search({query: '', limit, offset, sort: 'updated',
\*                       filters: {claimed_by: userId}})
MyServersParams(userId, offset, limit) ==
  << <<"query", Str("")>>, <<"limit", Num(limit)>>, <<"offset", Num(offset)>>,
     <<"sort", Str("updated")>>,
     <<"filters", Obj([claimed_by |-> Str(userId)])>> >>

Sources == {Undef, Str("github")}

ClaimRouteParams ==
  {UnclaimedParams(s, o, l) : s \in Sources, o \in Offsets, l \in Limits}
    \cup {MyServersParams(u, o, l) : u \in Users, o \in Offsets, l \in Limits}

InitRouteKey ==
  /\ store = [i \in Ids |-> NoRec]
  /\ index = [i \in Ids |-> NoRec]
  /\ nextId = 1
  /\ cache = [k \in CacheKeys |-> NoRec]
  /\ clock = 0
  /\ started = [mutations |-> 0, reads |-> 0]
  /\ pc = [h \in Slots |-> IF h \in Readers THEN "key" ELSE "idle"]
  /\ \E params \in ClaimRouteParams :
       req = [h \in Slots |-> IF h \in Readers
                                THEN [op |-> "key", id |-> 0, params |-> params,
                                      other |-> params]
                                ELSE NoReq]
  /\ doc = [h \in Slots |-> NoDoc]
  /\ resp = [h \in Slots |-> 0]
  /\ body = [h \in Slots |-> NoRec]
  /\ log = [h \in Slots |-> << >>]
  /\ lastWriter = [i \in Ids |-> None]

\* this.generateCacheKey(other), for the parameters of another request of
\* the claim routes
KeyCallRoute(g) ==
  /\ pc[g] = "key_other"
  /\ \E other \in ClaimRouteParams :
       /\ req' = [req EXCEPT ![g].other = other]
       /\ body' = [body EXCEPT ![g] = [key |-> body[g].key,
                                       other |-> GenerateCacheKey(other)]]
  /\ pc' = [pc EXCEPT ![g] = "done"]
  /\ UNCHANGED <<store, index, cache, nextId, clock, started, doc, resp, log,
                 lastWriter>>

NextRouteKey == \E g \in Readers : KeyCall(g) \/ KeyCallRoute(g)

SpecRouteKey == InitRouteKey /\ [][NextRouteKey]_vars

\* C28: two search requests that differ in the value of a parameter, a value
\* inside filters included, get different cache keys.
C28_DistinctRequestsDistinctKeys ==
  \A g \in Readers :
    (/\ pc[g] = "done" /\ req[g].op = "key"
     /\ Range(req[g].other) # Range(req[g].params))
      => body[g].other # body[g].key

(***************************************************************************)
(* Deletes against a claim and reindexAll                                  *)
(***************************************************************************)
NextOrphan ==
  \E h \in Handlers :
    \/ DeleteBeginWith(h, {1}, Publishers)
    \/ DeleteFind(h)
    \/ DeleteOne(h)
    \/ EsDelete(h)
    \/ ClaimBeginWith(h, {1}, {"u1"})
    \/ ClaimFind(h)
    \/ Reproject(h)
    \/ ReindexBegin(h)
    \/ Reindex(h)

SpecOrphan == Init /\ [][NextOrphan]_vars

\* The last request of a handler was a delete whose search-index step failed.
DeleteToRetry ==
  \E h \in Handlers :
    /\ pc[h] = "done" /\ req[h].op = "delete"
    /\ "index_failed" \in Range(log[h])

\* C29: when no request is in flight and no delete that failed at its
\* search-index step is waiting to be repeated, every document of the search
\* index has an identifier that resolves in the Record Store.
C29_NoOrphanDocuments ==
  ((\A h \in Handlers : Free(h)) /\ ~DeleteToRetry)
    => \A id \in Ids : index[id] # NoRec => store[id] # NoRec

(***************************************************************************)
(* Two addVersion requests on one record                                   *)
(***************************************************************************)
NewVersionStrings == {"1.1.0", "1.2.0"}

NextTwoVersions ==
  \E h \in Handlers :
    \/ AddVersionBeginWith(h, {1}, NewVersionStrings, Publishers)
    \/ AddVersionFind(h)
    \/ Reproject(h)

SpecTwoVersions == Init /\ [][NextTwoVersions]_vars

VersionsOf(rec) == {rec.versions[i].version : i \in 1..Len(rec.versions)}

\* C30: however two addVersion requests on the record interleave, its versions
\* list never holds a version string twice and always has exactly one latest
\* entry, no step removes a version from it, and a request answered with
\* success leaves with its version in the list.
C30_ConcurrentAddVersion ==
  [][/\ \A id \in Ids :
          store'[id] # NoRec
            => /\ Cardinality(VersionsOf(store'[id])) = Len(store'[id].versions)
               /\ LatestCount(store'[id].versions) = 1
               /\ store[id] # NoRec => VersionsOf(store[id]) \subseteq VersionsOf(store'[id])
     /\ \A h \in Handlers :
          (Leaves(h, "index") /\ req[h].op = "addVersion" /\ resp'[h] = 200)
            => req[h].input \in VersionsOf(store'[req[h].id])]_vars

\* Two interleaved requests: one answered with success, the save of the other
\* refused on the document version.
C30_Witness ==
  \E h, k \in Handlers :
    /\ pc[h] = "done" /\ req[h].op = "addVersion" /\ resp[h] = 200
    /\ pc[k] = "done" /\ req[k].op = "addVersion" /\ resp[k] = InternalError
    /\ log[k] = << >>
    /\ Len(store[1].versions) = 2
    /\ LatestCount(store[1].versions) = 1

====
